---- MODULE Spec2Model ----
(***************************************************************************)
(* Model of stress-landlock.c: the capability probe, the flag driver       *)
(* (stress_landlock), the one-test-per-process harness                     *)
(* (stress_landlock_test), the per-test procedure run in the forked child  *)
(* (stress_landlock_flag) and the recursive enumerator                     *)
(* (stress_landlock_many) run in its own forked process.                   *)
(*                                                                         *)
(* Access masks are uint32_t values; they are represented by the set of    *)
(* their set bit positions (a subset of 0..31), because 2^32-1 does not    *)
(* fit TLC's integers.  OR is union, the 32-bit complement is the set      *)
(* difference from 0..31.                                                  *)
(***************************************************************************)
EXTENDS Integers, Sequences, FiniteSets, TLC

VARIABLES
    pc,          \* position of the driver process (probe, stress_landlock, stress_landlock_test)
    pass,        \* which of the three for-loops / the complement step is running
    i,           \* loop index i of the current for-loop (1-based)
    flag,        \* ctxt.flag
    failures,    \* int failures
    bogo,        \* bogo-operation counter of the stressor
    keepRunning, \* the framework's keep-stressing flag (cleared by SIGALRM)
    pid_many,    \* pid_many
    status,      \* int status of the running stress_landlock_test call
    waitres,     \* how shim_waitpid returned in the running stress_landlock_test call
    fileExists,  \* does ctxt.filename exist on disk
    dfds,        \* descriptors open in the driver process
    drvDom,      \* number of landlock domains the driver process is restricted by
    cur,         \* pid_t pid of the running stress_landlock_test call (0: none)
    kids,        \* the test children, by pid: running, or terminated and not yet reaped
    badClose,    \* some close() was issued on a descriptor that was not open
    killCalls,   \* processes stress_kill_pid_wait was called on
    mpc,         \* position of the enumerator process
    mstack,      \* call stack of stress_landlock_many in the enumerator
    mfds,        \* descriptors open in the enumerator process
    mdom,        \* number of landlock domains the enumerator is restricted by
    visited,     \* directories stress_landlock_many was invoked on in this traversal
    mRuleFail,   \* a landlock_add_rule failed in this traversal
    mOtherFail,  \* a create_ruleset, scandir or open failed in this traversal, or the
                 \* real path of a directory entry could not be resolved
    treeDepth    \* depth of the directory tree below "/"

vars == <<pc, pass, i, flag, failures, bogo, keepRunning, pid_many, status, waitres,
          fileExists, dfds, drvDom, cur, kids, badClose, killCalls,
          mpc, mstack, mfds, mdom, visited, mRuleFail, mOtherFail, treeDepth>>

drvVars == <<pc, pass, i, flag, failures, bogo, pid_many, status, waitres, dfds, drvDom, cur>>
manyVars == <<mpc, mstack, mfds, mdom, visited, mRuleFail, mOtherFail>>

----------------------------------------------------------------------------
(* Bounds of the model *)

\* --landlock-ops: stress_continue() turns false once this many bogo-ops are counted
MaxOps == 2
\* test children the process table has room for
MaxKids == 2
\* deepest directory chain considered when the enumerator is studied alone
MaxTreeDepth == 32
\* depth of the directory chain when the whole stressor runs
SmallTreeDepth == 1

----------------------------------------------------------------------------
(* Program constants *)

FailureThreshold == 5
DepthLimit == 30
EXIT_SUCCESS == 0
ForkFailed == -1
ManyPid == 1

\* SHIM_LANDLOCK_ACCESS_FS_* bit positions
FS_EXECUTE == 0
FS_WRITE_FILE == 1
FS_READ_FILE == 2
FS_READ_DIR == 3
FS_REMOVE_DIR == 4
FS_REMOVE_FILE == 5
FS_MAKE_CHAR == 6
FS_MAKE_DIR == 7
FS_MAKE_REG == 8
FS_MAKE_SOCK == 9
FS_MAKE_FIFO == 10
FS_MAKE_BLOCK == 11
FS_MAKE_SYM == 12

SHIM_LANDLOCK_ACCESS_ALL ==
    {FS_EXECUTE, FS_WRITE_FILE, FS_READ_FILE, FS_READ_DIR, FS_REMOVE_DIR,
     FS_REMOVE_FILE, FS_MAKE_CHAR, FS_MAKE_DIR, FS_MAKE_REG, FS_MAKE_SOCK,
     FS_MAKE_FIFO, FS_MAKE_BLOCK, FS_MAKE_SYM}

landlock_access_flags ==
    << {FS_EXECUTE}, {FS_WRITE_FILE}, {FS_READ_FILE},
       {FS_WRITE_FILE, FS_READ_FILE},
       {FS_READ_DIR}, {FS_REMOVE_DIR}, {FS_REMOVE_FILE}, {FS_MAKE_CHAR},
       {FS_MAKE_DIR}, {FS_MAKE_REG}, {FS_MAKE_SOCK}, {FS_MAKE_FIFO},
       {FS_MAKE_BLOCK}, {FS_MAKE_SYM}, {} >>

NFlags == Len(landlock_access_flags)

----------------------------------------------------------------------------
(* Mask arithmetic *)

Bits32 == 0..31

\* (uint32_t)x of a non-negative int
U32(m) == m \cap Bits32

\* a | b
BitOr(a, b) == a \cup b

\* ~a on a uint32_t
BitNot32(a) == Bits32 \ a

----------------------------------------------------------------------------
(* Test children *)

Slots == 1..MaxKids

NoStatus == [exited |-> FALSE, code |-> -1]
Exited(rc) == [exited |-> TRUE, code |-> rc]
Signaled == [exited |-> FALSE, code |-> 0]

\* the values an int status that waitpid did not write can be read as
StatusValues == {Exited(0), Exited(1), Signaled}

NoKid == [pc |-> "none", fds |-> {}, dom |-> 0, nnp |-> FALSE, calls |-> 0,
          mask |-> {}, allowed |-> {}, ruleAdded |-> FALSE, rc |-> 0,
          st |-> NoStatus, opens |-> 0]

KidRunning(k) == k.pc \notin {"none", "exited", "signaled"}

\* unlink(ctxt->filename) by a process restricted by dom landlock domains:
\* the values fileExists may have afterwards (a domain may deny the removal)
UnlinkResults(dom, exists) == IF dom = 0 THEN {FALSE} ELSE {FALSE, exists}

\* close(fd): the descriptor table after the call
CloseFd(fds, fd) == fds \ {fd}

\* stress_continue(args)
StressContinue == keepRunning /\ bogo < MaxOps

----------------------------------------------------------------------------
(* stress_landlock_flag, run by the test child in slot s *)

\* faulty variants of the restriction failure branch: one skips close_parent,
\* one tries the restriction again
AfterRestrictFail_SkipCloseParent == "f_close_ruleset"
AfterRestrictFail_Retry == "f_restrict"
\* faulty variant: the opens are attempted after a rejected restriction too
AfterRestrictFail_DoOpens == "f_opens"
\* faulty variant: a failed prctl does not stop the restriction
AfterPrctlFail_Restrict == "f_restrict"

\* where the failure branches of stress_landlock_flag jump to
AfterAnchorFail == "f_close_ruleset"
AfterAddRuleFail == "f_close_parent"
AfterPrctlFail == "f_close_parent"
AfterRestrictFail == "f_close_parent"

\* the value stress_landlock_flag returns at its end
FlagReturnCode == EXIT_SUCCESS

\* open(ctxt->filename, O_CREAT | O_RDWR | O_CLOEXEC) and close(fd)
FlagCreateFile(s) ==
    /\ kids[s].pc = "f_create"
    /\ \E ok \in BOOLEAN : fileExists' = (fileExists \/ ok)
    /\ kids' = [kids EXCEPT ![s].pc = "f_ruleset"]
    /\ UNCHANGED <<drvVars, manyVars, keepRunning, badClose, killCalls, treeDepth>>

\* the version query, then landlock_create_ruleset(SHIM_LANDLOCK_ACCESS_ALL)
FlagCreateRuleset(s) ==
    /\ kids[s].pc = "f_ruleset"
    /\ \E ok \in BOOLEAN :
          kids' = [kids EXCEPT ![s] =
                     IF ok THEN [@ EXCEPT !.pc = "f_anchor", !.fds = @ \cup {"ruleset"}]
                           ELSE [@ EXCEPT !.pc = "f_exit", !.rc = 0]]
    /\ UNCHANGED <<drvVars, manyVars, keepRunning, fileExists, badClose, killCalls, treeDepth>>

\* path_beneath.allowed_access = ctxt->flag; parent_fd = open(ctxt->path, O_PATH)
FlagOpenAnchor(s) ==
    /\ kids[s].pc = "f_anchor"
    /\ \E ok \in BOOLEAN :
          kids' = [kids EXCEPT ![s] =
                     IF ok THEN [@ EXCEPT !.pc = "f_addrule", !.allowed = kids[s].mask,
                                          !.fds = @ \cup {"anchor"}]
                           ELSE [@ EXCEPT !.pc = AfterAnchorFail, !.allowed = kids[s].mask]]
    /\ UNCHANGED <<drvVars, manyVars, keepRunning, fileExists, badClose, killCalls, treeDepth>>

\* landlock_add_rule(ruleset_fd, LANDLOCK_RULE_PATH_BENEATH, &path_beneath, 0)
FlagAddRule(s) ==
    /\ kids[s].pc = "f_addrule"
    /\ \E ok \in BOOLEAN :
          kids' = [kids EXCEPT ![s] =
                     IF ok THEN [@ EXCEPT !.pc = "f_prctl", !.ruleAdded = TRUE]
                           ELSE [@ EXCEPT !.pc = AfterAddRuleFail]]
    /\ UNCHANGED <<drvVars, manyVars, keepRunning, fileExists, badClose, killCalls, treeDepth>>

\* prctl(PR_SET_NO_NEW_PRIVS, 1, 0, 0, 0)
FlagPrctl(s) ==
    /\ kids[s].pc = "f_prctl"
    /\ \E ok \in BOOLEAN :
          kids' = [kids EXCEPT ![s] =
                     IF ok THEN [@ EXCEPT !.pc = "f_restrict", !.nnp = TRUE]
                           ELSE [@ EXCEPT !.pc = AfterPrctlFail]]
    /\ UNCHANGED <<drvVars, manyVars, keepRunning, fileExists, badClose, killCalls, treeDepth>>

\* landlock_restrict_self(ruleset_fd, 0)
FlagRestrict(s) ==
    /\ kids[s].pc = "f_restrict"
    /\ \E ok \in BOOLEAN :
          kids' = [kids EXCEPT ![s] =
                     IF ok THEN [@ EXCEPT !.pc = "f_opens", !.calls = @ + 1, !.dom = @ + 1]
                           ELSE [@ EXCEPT !.pc = AfterRestrictFail, !.calls = @ + 1]]
    /\ UNCHANGED <<drvVars, manyVars, keepRunning, fileExists, badClose, killCalls, treeDepth>>

\* the O_RDONLY, O_WRONLY and O_RDWR opens of ctxt->filename, each closed at once
FlagOpens(s) ==
    /\ kids[s].pc = "f_opens"
    /\ kids' = [kids EXCEPT ![s].pc = "f_unlink", ![s].opens = @ + 3]
    /\ UNCHANGED <<drvVars, manyVars, keepRunning, fileExists, badClose, killCalls, treeDepth>>

\* shim_unlink(ctxt->filename) in the restricted child; the kernel may deny it
FlagUnlink(s) ==
    /\ kids[s].pc = "f_unlink"
    /\ fileExists' \in UnlinkResults(kids[s].dom, fileExists)
    /\ kids' = [kids EXCEPT ![s].pc = "f_close_parent"]
    /\ UNCHANGED <<drvVars, manyVars, keepRunning, badClose, killCalls, treeDepth>>

\* close_parent: close(path_beneath.parent_fd)
FlagCloseParent(s) ==
    /\ kids[s].pc = "f_close_parent"
    /\ badClose' = (badClose \/ "anchor" \notin kids[s].fds)
    /\ kids' = [kids EXCEPT ![s].pc = "f_close_ruleset", ![s].fds = CloseFd(@, "anchor")]
    /\ UNCHANGED <<drvVars, manyVars, keepRunning, fileExists, killCalls, treeDepth>>

\* close_ruleset: close(ruleset_fd); return rc
FlagCloseRuleset(s) ==
    /\ kids[s].pc = "f_close_ruleset"
    /\ badClose' = (badClose \/ "ruleset" \notin kids[s].fds)
    /\ kids' = [kids EXCEPT ![s].pc = "f_exit", ![s].fds = CloseFd(@, "ruleset"),
                            ![s].rc = FlagReturnCode]
    /\ UNCHANGED <<drvVars, manyVars, keepRunning, fileExists, killCalls, treeDepth>>

\* _exit(func(args, ctxt)) in the child branch of stress_landlock_test
FlagExit(s) ==
    /\ kids[s].pc = "f_exit"
    /\ kids' = [kids EXCEPT ![s] =
                  [NoKid EXCEPT !.pc = "exited", !.st = Exited(kids[s].rc)]]
    /\ UNCHANGED <<drvVars, manyVars, keepRunning, fileExists, badClose, killCalls, treeDepth>>

\* the test child is killed by a signal (a crash, the OOM killer, ...)
KidSignal(s) ==
    /\ KidRunning(kids[s])
    /\ kids' = [kids EXCEPT ![s] =
                  [NoKid EXCEPT !.pc = "signaled", !.st = Signaled]]
    /\ UNCHANGED <<drvVars, manyVars, keepRunning, fileExists, badClose, killCalls, treeDepth>>

KidStep(s) ==
    \/ FlagCreateFile(s)
    \/ FlagCreateRuleset(s)
    \/ FlagOpenAnchor(s)
    \/ FlagAddRule(s)
    \/ FlagPrctl(s)
    \/ FlagRestrict(s)
    \/ FlagOpens(s)
    \/ FlagUnlink(s)
    \/ FlagCloseParent(s)
    \/ FlagCloseRuleset(s)
    \/ FlagExit(s)
    \/ KidSignal(s)

----------------------------------------------------------------------------
(* stress_landlock_supported, the capability probe *)

\* landlock_create_ruleset(SHIM_LANDLOCK_ACCESS_FS_READ_FILE); return -1 when it fails
SupportedCreate ==
    /\ pc = "sup_create"
    /\ \E ok \in BOOLEAN :
          IF ok THEN pc' = "sup_close" /\ dfds' = dfds \cup {"ruleset"}
                ELSE pc' = "skipped" /\ dfds' = dfds
    /\ UNCHANGED <<pass, i, flag, failures, bogo, pid_many, status, waitres, drvDom, cur,
                   manyVars, kids, keepRunning, fileExists, badClose, killCalls, treeDepth>>

\* close(ruleset_fd); return 0
SupportedClose ==
    /\ pc = "sup_close"
    /\ badClose' = (badClose \/ "ruleset" \notin dfds)
    /\ dfds' = CloseFd(dfds, "ruleset")
    /\ pc' = "start"
    /\ UNCHANGED <<pass, i, flag, failures, bogo, pid_many, status, waitres, drvDom, cur,
                   manyVars, kids, keepRunning, fileExists, killCalls, treeDepth>>

----------------------------------------------------------------------------
(* stress_landlock_test, the harness, run by the driver *)

\* the child the enumerator and the tests start as: a copy of the forking process
NewKid(m) == [NoKid EXCEPT !.pc = "f_create", !.mask = m, !.dom = drvDom]

\* the pids fork() can hand out
FreeSlots == {k \in Slots : kids[k].pc = "none"}

\* again: pid = fork(); retried while stress_redo_fork() says so, else return
TestFork ==
    /\ pc = "t_fork"
    /\ \E r \in {"ok", "redo", "giveup"} :
          CASE r = "ok" ->
                 /\ \E k \in FreeSlots :
                       /\ \A j \in FreeSlots : k <= j
                       /\ kids' = [kids EXCEPT ![k] = NewKid(flag)]
                       /\ cur' = k
                 /\ pc' = "t_wait"
            [] r = "redo" ->
                 /\ pc' = "t_fork"
                 /\ UNCHANGED <<kids, cur>>
            [] r = "giveup" ->
                 /\ pc' = "check"
                 /\ UNCHANGED <<kids, cur>>
    /\ UNCHANGED <<pass, i, flag, failures, bogo, pid_many, status, waitres, dfds, drvDom,
                   manyVars, keepRunning, fileExists, badClose, killCalls, treeDepth>>

\* faulty variant: EINTR is handled like any other error
AfterWaitFail_FallThrough(e) == "t_classify"

\* faulty variant: a failed wait is tried again whatever the error
AfterWaitFail_Rewait(e) == "t_wait"

\* if (errno != EINTR) { pr_err(...) } else { kill, unlink, return }
AfterWaitFail(e) == IF e = "eintr" THEN "t_kill" ELSE "t_classify"

\* shim_waitpid(pid, &status, 0) and the errno test.  It returns the pid once
\* the child has terminated, storing its status; it fails with EINTR when a
\* signal interrupts it; it fails with another error (ECHILD) when the child
\* is no longer there to be waited for, and then leaves status unwritten
TestWait ==
    /\ pc = "t_wait"
    /\ \/ /\ kids[cur].pc \in {"exited", "signaled"}
          /\ status' = kids[cur].st
          /\ waitres' = "ok"
          /\ kids' = [kids EXCEPT ![cur] = NoKid]
          /\ pc' = "t_classify"
       \/ /\ waitres' = "eintr"
          /\ pc' = AfterWaitFail("eintr")
          /\ UNCHANGED <<status, kids>>
       \/ /\ kids[cur].pc \in {"exited", "signaled"}
          /\ waitres' = "err"
          /\ pc' = AfterWaitFail("err")
          /\ status' = status
          /\ kids' = [kids EXCEPT ![cur] = NoKid]
    /\ UNCHANGED <<pass, i, flag, failures, bogo, pid_many, cur, dfds, drvDom,
                   manyVars, keepRunning, fileExists, badClose, killCalls, treeDepth>>

\* faulty variant: the interrupted child is left as it is
KillPidWait_NotKilled(k) == k

\* what stress_kill_pid_wait(pid, NULL) leaves of the child k: it is killed and reaped
KillPidWait(k) == NoKid

\* EINTR: stress_kill_pid_wait(pid, NULL) kills the child and reaps it
TestKill ==
    /\ pc = "t_kill"
    /\ kids' = [kids EXCEPT ![cur] = KillPidWait(@)]
    /\ pc' = "t_unlink"
    /\ UNCHANGED <<pass, i, flag, failures, bogo, pid_many, status, waitres, dfds, drvDom, cur,
                   manyVars, keepRunning, fileExists, badClose, killCalls, treeDepth>>

\* does the harness count the status st as a failure
CountsAsFailure(st) == st.exited /\ st.code # EXIT_SUCCESS

\* if (WIFEXITED(status)) { if (WEXITSTATUS(status) != EXIT_SUCCESS) (*failures)++; }
\* a status waitpid did not write is read as any value
TestClassify ==
    /\ pc = "t_classify"
    /\ \E st \in (IF status = NoStatus THEN StatusValues ELSE {status}) :
          /\ failures' = IF CountsAsFailure(st) THEN failures + 1 ELSE failures
          /\ status' = st
    /\ pc' = "t_unlink"
    /\ UNCHANGED <<pass, i, flag, bogo, pid_many, waitres, dfds, drvDom, cur,
                   manyVars, kids, keepRunning, fileExists, badClose, killCalls, treeDepth>>

\* the return path the harness is on once the wait is dealt with
ReturnPath == IF waitres = "eintr" THEN "interrupted"
              ELSE IF status.exited THEN "exited" ELSE "other"

\* faulty variant: no unlink when the child did not exit
UnlinksOn_ExitedOnly(p) == p \in {"interrupted", "exited"}

\* does the harness unlink ctxt->filename on the return path p
UnlinksOn(p) == p \in {"interrupted", "exited", "other"}

\* shim_unlink(ctxt->filename); return
TestUnlink ==
    /\ pc = "t_unlink"
    /\ IF UnlinksOn(ReturnPath)
          THEN fileExists' \in UnlinkResults(drvDom, fileExists)
          ELSE fileExists' = fileExists
    /\ pc' = "check"
    /\ status' = NoStatus
    /\ waitres' = "none"
    /\ cur' = 0
    /\ UNCHANGED <<pass, i, flag, failures, bogo, pid_many, dfds, drvDom,
                   manyVars, kids, keepRunning, badClose, killCalls, treeDepth>>

----------------------------------------------------------------------------
(* stress_landlock, the driver *)

\* int failures = 0; ctxt.path and ctxt.filename are set
Start ==
    /\ pc = "start"
    /\ failures' = 0
    /\ pc' = "fork_many"
    /\ UNCHANGED <<pass, i, flag, bogo, pid_many, status, waitres, dfds, drvDom, cur,
                   manyVars, kids, keepRunning, fileExists, badClose, killCalls, treeDepth>>

\* variant: failures is reset by every outer iteration
LoopTopFailures_Reset(f) == 0

\* the value of failures when an outer iteration starts
LoopTopFailures(f) == f

\* do { ctxt.flag = 0; and the first for-loop is entered
LoopTop ==
    /\ pc = "loop_top"
    /\ flag' = {}
    /\ failures' = LoopTopFailures(failures)
    /\ pass' = "cum"
    /\ i' = 1
    /\ pc' = "step"
    /\ UNCHANGED <<bogo, pid_many, status, waitres, dfds, drvDom, cur,
                   manyVars, kids, keepRunning, fileExists, badClose, killCalls, treeDepth>>

\* faulty variant: the isolated pass keeps ORing into the mask
NextMask_NoReset(p, f, n) ==
    CASE p = "cum"  -> BitOr(f, U32(landlock_access_flags[n]))
      [] p = "iso"  -> BitOr(f, U32(landlock_access_flags[n]))
      [] p = "comp" -> BitNot32(f)

\* faulty variant: the complement is taken over the thirteen defined bits only
NextMask_NarrowComplement(p, f, n) ==
    CASE p = "cum"  -> BitOr(f, U32(landlock_access_flags[n]))
      [] p = "iso"  -> U32(landlock_access_flags[n])
      [] p = "comp" -> SHIM_LANDLOCK_ACCESS_ALL \ f

\* faulty variant: the cumulative pass does not accumulate
NextMask_NoAccumulate(p, f, n) ==
    CASE p = "cum"  -> U32(landlock_access_flags[n])
      [] p = "iso"  -> U32(landlock_access_flags[n])
      [] p = "comp" -> BitNot32(f)

\* the mask the next test runs with
NextMask(p, f, n) ==
    CASE p = "cum"  -> BitOr(f, U32(landlock_access_flags[n]))
      [] p = "iso"  -> U32(landlock_access_flags[n])
      [] p = "comp" -> BitNot32(f)

\* ctxt.flag is set and stress_landlock_test(args, stress_landlock_flag, &ctxt, &failures) is called
Step ==
    /\ pc = "step"
    /\ flag' = NextMask(pass, flag, i)
    /\ status' = NoStatus
    /\ waitres' = "none"
    /\ cur' = 0
    /\ pc' = "t_fork"
    /\ UNCHANGED <<pass, i, failures, bogo, pid_many, dfds, drvDom,
                   manyVars, kids, keepRunning, fileExists, badClose, killCalls, treeDepth>>

\* faulty variant: the threshold test is off by one
AbortNow_OffByOne(f) == f > FailureThreshold

\* if (failures >= 5) goto err;
AbortNow(f) == f >= FailureThreshold

\* is the test that just returned followed by a check of failures
Checked(p) == p \in {"cum", "iso", "comp"}

\* the check after each test, and the loop control that follows it
Check ==
    /\ pc = "check"
    /\ IF Checked(pass) /\ AbortNow(failures)
          THEN pc' = "err" /\ UNCHANGED <<pass, i>>
          ELSE CASE pass = "cum" /\ i < NFlags -> pc' = "step" /\ i' = i + 1 /\ pass' = pass
                 [] pass = "cum" /\ i >= NFlags -> pc' = "step" /\ i' = 1 /\ pass' = "iso"
                 [] pass = "iso" /\ i < NFlags -> pc' = "step" /\ i' = i + 1 /\ pass' = pass
                 [] pass = "iso" /\ i >= NFlags -> pc' = "step" /\ i' = i /\ pass' = "comp"
                 [] pass = "comp" -> pc' = "bogo" /\ UNCHANGED <<pass, i>>
    /\ UNCHANGED <<flag, failures, bogo, pid_many, status, waitres, dfds, drvDom, cur,
                   manyVars, kids, keepRunning, fileExists, badClose, killCalls, treeDepth>>

\* stress_bogo_inc(args)
BogoInc ==
    /\ pc = "bogo"
    /\ bogo' = bogo + 1
    /\ pc' = "while"
    /\ UNCHANGED <<pass, i, flag, failures, pid_many, status, waitres, dfds, drvDom, cur,
                   manyVars, kids, keepRunning, fileExists, badClose, killCalls, treeDepth>>

\* } while (stress_continue(args));
While ==
    /\ pc = "while"
    /\ pc' = IF StressContinue THEN "loop_top" ELSE "err"
    /\ UNCHANGED <<pass, i, flag, failures, bogo, pid_many, status, waitres, dfds, drvDom, cur,
                   manyVars, kids, keepRunning, fileExists, badClose, killCalls, treeDepth>>

\* faulty variant: the test is inverted
KillsMany_Inverted(pid) == pid = ForkFailed

\* if (pid_many != -1)
KillsMany(pid) == pid # ForkFailed

\* err: the enumerator is killed and reaped by stress_kill_pid_wait(pid_many, NULL)
Err ==
    /\ pc = "err"
    /\ IF KillsMany(pid_many)
          THEN /\ killCalls' = killCalls \cup {IF pid_many = ManyPid THEN "many" ELSE "other"}
               /\ mpc' = IF pid_many = ManyPid THEN "reaped" ELSE mpc
               /\ mstack' = IF pid_many = ManyPid THEN <<>> ELSE mstack
               /\ mfds' = IF pid_many = ManyPid THEN {} ELSE mfds
               /\ visited' = IF pid_many = ManyPid THEN {} ELSE visited
               /\ mRuleFail' = IF pid_many = ManyPid THEN FALSE ELSE mRuleFail
               /\ mOtherFail' = IF pid_many = ManyPid THEN FALSE ELSE mOtherFail
          ELSE UNCHANGED <<killCalls, mpc, mstack, mfds, visited, mRuleFail, mOtherFail>>
    /\ pc' = "deinit"
    /\ UNCHANGED <<pass, i, flag, failures, bogo, pid_many, status, waitres, dfds, drvDom, cur,
                   mdom,
                   kids, keepRunning, fileExists, badClose, treeDepth>>

\* stress_set_proc_state(STRESS_STATE_DEINIT); return EXIT_SUCCESS
Return ==
    /\ pc = "deinit"
    /\ pc' = "done"
    /\ UNCHANGED <<pass, i, flag, failures, bogo, pid_many, status, waitres, dfds, drvDom, cur,
                   manyVars, kids, keepRunning, fileExists, badClose, killCalls, treeDepth>>

\* the framework clears the keep-stressing flag (time budget, SIGALRM)
Stop ==
    /\ keepRunning
    /\ keepRunning' = FALSE
    /\ UNCHANGED <<drvVars, manyVars, kids, fileExists, badClose, killCalls, treeDepth>>

----------------------------------------------------------------------------
(* The directory tree: a chain of directories below "/", directory d being *)
(* the one at depth d.  Every directory but the deepest holds a regular    *)
(* file, the next directory and a symbolic link; the deepest is empty.     *)

DT_REG == "DT_REG"
DT_DIR == "DT_DIR"
DT_LNK == "DT_LNK"

\* scandir(path, &namelist, stress_landlock_filter, alphasort): the entries
\* other than "." and "..", in name order
DirEntries(d) ==
    IF d < treeDepth
       THEN << [name |-> "a", d_type |-> DT_REG, sub |-> d],
               [name |-> "d", d_type |-> DT_DIR, sub |-> d + 1],
               [name |-> "l", d_type |-> DT_LNK, sub |-> d] >>
       ELSE << >>

\* realpath(newpath, resolved) compared with newpath: a symbolic link never
\* resolves to its own path; any resolution may fail
RealpathResults(e) ==
    IF e.d_type = DT_LNK THEN {"diff", "null"} ELSE {"same", "null"}

AllDirs == 0..treeDepth

----------------------------------------------------------------------------
(* The enumerator process and stress_landlock_many *)

Top == mstack[Len(mstack)]
SetTop(f) == [mstack EXCEPT ![Len(mstack)] = f]
Pop == SubSeq(mstack, 1, Len(mstack) - 1)

\* one invocation of stress_landlock_many: its arguments, its locals i, n and
\* ret, how realpath answered for the entry being processed (rp), and the
\* number of blocks of the directory listing it holds that are not freed yet
\* (alloc: the namelist array and its entries)
Frame(dir, depth) == [dir |-> dir, depth |-> depth, i |-> 0, n |-> 0, ret |-> 0,
                      rp |-> "none", alloc |-> 0]

RulesetFd(lvl) == [lvl |-> lvl, kind |-> "ruleset"]
AnchorFd(lvl) == [lvl |-> lvl, kind |-> "anchor"]

\* where the enumerator continues when an invocation returns to the stack st
ReturnPc(st) == IF st = <<>> THEN "m_while" ELSE "m_next"

\* again: pid_many = fork(); retried while stress_redo_fork() says so
ForkMany ==
    /\ pc = "fork_many"
    /\ \E r \in {"ok", "redo", "giveup"} :
          CASE r = "ok" ->
                 /\ pid_many' = ManyPid
                 /\ mpc' = "m_call"
                 /\ mdom' = drvDom
                 /\ pc' = "loop_top"
            [] r = "redo" ->
                 /\ pc' = "fork_many"
                 /\ UNCHANGED <<pid_many, mpc, mdom>>
            [] r = "giveup" ->
                 /\ pid_many' = ForkFailed
                 /\ pc' = "loop_top"
                 /\ UNCHANGED <<mpc, mdom>>
    /\ UNCHANGED <<pass, i, flag, failures, bogo, status, waitres, dfds, drvDom, cur,
                   mstack, mfds, visited, mRuleFail, mOtherFail,
                   kids, keepRunning, fileExists, badClose, killCalls, treeDepth>>

\* do { stress_landlock_many(args, "/", 0);
ManyCall ==
    /\ mpc = "m_call"
    /\ mstack' = <<Frame(0, 0)>>
    /\ visited' = {}
    /\ mRuleFail' = FALSE
    /\ mOtherFail' = FALSE
    /\ mpc' = "m_enter"
    /\ UNCHANGED <<drvVars, mfds, mdom, kids, keepRunning, fileExists, badClose,
                   killCalls, treeDepth>>

\* entry of stress_landlock_many: landlock_create_ruleset(SHIM_LANDLOCK_ACCESS_ALL),
\* return when it fails
ManyEnter ==
    /\ mpc = "m_enter"
    /\ visited' = visited \cup {Top.dir}
    /\ \E ok \in BOOLEAN :
          IF ok THEN /\ mfds' = mfds \cup {RulesetFd(Len(mstack))}
                     /\ mpc' = "m_scandir"
                     /\ UNCHANGED <<mstack, mOtherFail>>
                ELSE /\ mOtherFail' = TRUE
                     /\ mstack' = Pop
                     /\ mpc' = ReturnPc(Pop)
                     /\ mfds' = mfds
    /\ UNCHANGED <<drvVars, mdom, mRuleFail, kids, keepRunning, fileExists, badClose,
                   killCalls, treeDepth>>

\* n = scandir(...); i = 0
ManyScandir ==
    /\ mpc = "m_scandir"
    /\ \E ok \in BOOLEAN :
          IF ok THEN /\ mstack' = SetTop([Top EXCEPT !.n = Len(DirEntries(Top.dir)), !.i = 1,
                                                       !.alloc = Len(DirEntries(Top.dir)) + 1])
                     /\ mOtherFail' = mOtherFail
                ELSE /\ mstack' = SetTop([Top EXCEPT !.n = -1, !.i = 1, !.alloc = 0])
                     /\ mOtherFail' = TRUE
    /\ mpc' = "m_loop"
    /\ UNCHANGED <<drvVars, mfds, mdom, visited, mRuleFail, kids, keepRunning, fileExists,
                   badClose, killCalls, treeDepth>>

\* for (...; i < n; ...)
ManyLoop ==
    /\ mpc = "m_loop"
    /\ mpc' = IF Top.i <= Top.n THEN "m_realpath" ELSE "m_freelist"
    /\ UNCHANGED <<drvVars, mstack, mfds, mdom, visited, mRuleFail, mOtherFail, kids,
                   keepRunning, fileExists, badClose, killCalls, treeDepth>>

\* what is done with an entry whose real path equals its joined path
EntryAction(e) ==
    CASE e.d_type \in {DT_REG, DT_LNK} -> "m_open"
      [] e.d_type = DT_DIR -> "m_dir"
      [] OTHER -> "m_next"

\* faulty variant: every entry whose real path resolves is processed
Proceeds_AnyResolved(r) == r # "null"

\* realpath(newpath, resolved) != NULL and strcmp(newpath, resolved) == 0
Proceeds(r) == r = "same"

\* newpath is built, realpath(newpath, resolved) is compared with it, and d_type is switched on
ManyRealpath ==
    /\ mpc = "m_realpath"
    /\ \E r \in RealpathResults(DirEntries(Top.dir)[Top.i]) :
          /\ mstack' = SetTop([Top EXCEPT !.rp = r])
          /\ mOtherFail' = (mOtherFail \/ (r = "null" /\ DirEntries(Top.dir)[Top.i].d_type = DT_DIR))
          /\ mpc' = IF Proceeds(r) THEN EntryAction(DirEntries(Top.dir)[Top.i]) ELSE "m_next"
    /\ UNCHANGED <<drvVars, mfds, mdom, visited, mRuleFail, kids,
                   keepRunning, fileExists, badClose, killCalls, treeDepth>>

\* path_beneath.parent_fd = open(resolved, O_PATH | O_NONBLOCK); goto close_ruleset when it fails
ManyOpen ==
    /\ mpc = "m_open"
    /\ \E ok \in BOOLEAN :
          IF ok THEN /\ mfds' = mfds \cup {AnchorFd(Len(mstack))}
                     /\ mpc' = "m_addrule"
                     /\ mOtherFail' = mOtherFail
                ELSE /\ mfds' = mfds
                     /\ mpc' = "m_close_ruleset"
                     /\ mOtherFail' = TRUE
    /\ UNCHANGED <<drvVars, mstack, mdom, visited, mRuleFail, kids,
                   keepRunning, fileExists, badClose, killCalls, treeDepth>>

\* ret = landlock_add_rule(ruleset_fd, LANDLOCK_RULE_PATH_BENEATH, &path_beneath, 0)
ManyAddRule ==
    /\ mpc = "m_addrule"
    /\ \E ok \in BOOLEAN :
          /\ mstack' = SetTop([Top EXCEPT !.ret = IF ok THEN 0 ELSE -1])
          /\ mRuleFail' = (mRuleFail \/ ~ok)
    /\ mpc' = "m_close_anchor"
    /\ UNCHANGED <<drvVars, mfds, mdom, visited, mOtherFail, kids,
                   keepRunning, fileExists, badClose, killCalls, treeDepth>>

\* close(path_beneath.parent_fd); if (ret < 0) goto close_ruleset; break
ManyCloseAnchor ==
    /\ mpc = "m_close_anchor"
    /\ badClose' = (badClose \/ AnchorFd(Len(mstack)) \notin mfds)
    /\ mfds' = CloseFd(mfds, AnchorFd(Len(mstack)))
    /\ mpc' = IF Top.ret < 0 THEN "m_close_ruleset" ELSE "m_next"
    /\ UNCHANGED <<drvVars, mstack, mdom, visited, mRuleFail, mOtherFail, kids,
                   keepRunning, fileExists, killCalls, treeDepth>>

\* faulty variant: the depth test is off by one
CanRecurse_OffByOne(depth) == depth <= DepthLimit

\* if (depth < 30)
CanRecurse(depth) == depth < DepthLimit

\* case DT_DIR: stress_landlock_many(args, resolved, depth + 1) when the depth allows
ManyDir ==
    /\ mpc = "m_dir"
    /\ IF CanRecurse(Top.depth)
          THEN /\ mstack' = Append(mstack, Frame(DirEntries(Top.dir)[Top.i].sub, Top.depth + 1))
               /\ mpc' = "m_enter"
          ELSE /\ mstack' = mstack
               /\ mpc' = "m_next"
    /\ UNCHANGED <<drvVars, mfds, mdom, visited, mRuleFail, mOtherFail, kids,
                   keepRunning, fileExists, badClose, killCalls, treeDepth>>

\* next: free(namelist[i]); i++
ManyNext ==
    /\ mpc = "m_next"
    /\ mstack' = SetTop([Top EXCEPT !.i = @ + 1, !.rp = "none", !.alloc = @ - 1])
    /\ mpc' = "m_loop"
    /\ UNCHANGED <<drvVars, mfds, mdom, visited, mRuleFail, mOtherFail, kids,
                   keepRunning, fileExists, badClose, killCalls, treeDepth>>

\* if (namelist) free(namelist)
ManyFreeList ==
    /\ mpc = "m_freelist"
    /\ mstack' = SetTop([Top EXCEPT !.alloc = IF Top.n >= 0 THEN @ - 1 ELSE @])
    /\ mpc' = "m_close_ruleset"
    /\ UNCHANGED <<drvVars, mfds, mdom, visited, mRuleFail, mOtherFail, kids,
                   keepRunning, fileExists, badClose, killCalls, treeDepth>>

\* close_ruleset: close(ruleset_fd); the invocation returns
ManyCloseRuleset ==
    /\ mpc = "m_close_ruleset"
    /\ badClose' = (badClose \/ RulesetFd(Len(mstack)) \notin mfds)
    /\ mfds' = CloseFd(mfds, RulesetFd(Len(mstack)))
    /\ mstack' = Pop
    /\ mpc' = ReturnPc(Pop)
    /\ UNCHANGED <<drvVars, mdom, visited, mRuleFail, mOtherFail, kids,
                   keepRunning, fileExists, killCalls, treeDepth>>

\* } while (stress_continue(args));
ManyWhile ==
    /\ mpc = "m_while"
    /\ mpc' = IF StressContinue THEN "m_call" ELSE "m_exit"
    /\ UNCHANGED <<drvVars, mstack, mfds, mdom, visited, mRuleFail, mOtherFail, kids,
                   keepRunning, fileExists, badClose, killCalls, treeDepth>>

\* _exit(0): the process is gone, a zombie until it is reaped
ManyExit ==
    /\ mpc = "m_exit"
    /\ mpc' = "exited"
    /\ mfds' = {}
    /\ visited' = {}
    /\ mRuleFail' = FALSE
    /\ mOtherFail' = FALSE
    /\ UNCHANGED <<drvVars, mstack, mdom, kids,
                   keepRunning, fileExists, badClose, killCalls, treeDepth>>

ManyStep ==
    \/ ManyCall
    \/ ManyEnter
    \/ ManyScandir
    \/ ManyLoop
    \/ ManyRealpath
    \/ ManyOpen
    \/ ManyAddRule
    \/ ManyCloseAnchor
    \/ ManyDir
    \/ ManyNext
    \/ ManyFreeList
    \/ ManyCloseRuleset
    \/ ManyWhile
    \/ ManyExit

----------------------------------------------------------------------------
(* The whole stressor: the probe, then stress_landlock with its children *)

InitCommon ==
    /\ pass = "cum"
    /\ i = 1
    /\ flag = {}
    /\ failures = 0
    /\ bogo = 0
    /\ keepRunning = TRUE
    /\ status = NoStatus
    /\ waitres = "none"
    /\ cur = 0
    /\ fileExists = FALSE
    /\ dfds = {}
    /\ drvDom = 0
    /\ kids = [s \in Slots |-> NoKid]
    /\ badClose = FALSE
    /\ killCalls = {}
    /\ mstack = <<>>
    /\ mfds = {}
    /\ mdom = 0
    /\ visited = {}
    /\ mRuleFail = FALSE
    /\ mOtherFail = FALSE

Init ==
    /\ InitCommon
    /\ pc = "sup_create"
    /\ pid_many = 0
    /\ mpc = "unforked"
    /\ treeDepth = SmallTreeDepth

Next ==
    \/ SupportedCreate
    \/ SupportedClose
    \/ Start
    \/ ForkMany
    \/ LoopTop
    \/ Step
    \/ TestFork
    \/ TestWait
    \/ TestKill
    \/ TestClassify
    \/ TestUnlink
    \/ Check
    \/ BogoInc
    \/ While
    \/ Err
    \/ Return
    \/ Stop
    \/ \E s \in Slots : KidStep(s)
    \/ ManyStep

Spec == Init /\ [][Next]_vars

----------------------------------------------------------------------------
(* The driver, the harness and the test children; the enumerator is forked *)
(* and killed, its own steps are left to the other two specifications      *)

NextDriver ==
    \/ SupportedCreate
    \/ SupportedClose
    \/ Start
    \/ ForkMany
    \/ LoopTop
    \/ Step
    \/ TestFork
    \/ TestWait
    \/ TestKill
    \/ TestClassify
    \/ TestUnlink
    \/ Check
    \/ BogoInc
    \/ While
    \/ Err
    \/ Return
    \/ Stop
    \/ \E s \in Slots : KidStep(s)

SpecDriver == Init /\ [][NextDriver]_vars

----------------------------------------------------------------------------
(* The driver, the harness and test children that run stress_landlock_flag *)
(* to its end: no test child is killed by a signal of its own              *)

\* stress_landlock_flag from its first statement to _exit, by the child in slot s
KidRun(s) ==
    \/ FlagCreateFile(s)
    \/ FlagCreateRuleset(s)
    \/ FlagOpenAnchor(s)
    \/ FlagAddRule(s)
    \/ FlagPrctl(s)
    \/ FlagRestrict(s)
    \/ FlagOpens(s)
    \/ FlagUnlink(s)
    \/ FlagCloseParent(s)
    \/ FlagCloseRuleset(s)
    \/ FlagExit(s)

NextNoCrash ==
    \/ SupportedCreate
    \/ SupportedClose
    \/ Start
    \/ ForkMany
    \/ LoopTop
    \/ Step
    \/ TestFork
    \/ TestWait
    \/ TestKill
    \/ TestClassify
    \/ TestUnlink
    \/ Check
    \/ BogoInc
    \/ While
    \/ Err
    \/ Return
    \/ Stop
    \/ \E s \in Slots : KidRun(s)

SpecNoCrash == Init /\ [][NextNoCrash]_vars

----------------------------------------------------------------------------
(* The same processes under fair scheduling: the driver process keeps      *)
(* running while it has a step to take (a fork that is retried comes to    *)
(* succeed or is given up, a wait returns), and so does every test child   *)

\* a step of the driver process: the probe, stress_landlock, stress_landlock_test
DriverStep ==
    \/ SupportedCreate
    \/ SupportedClose
    \/ Start
    \/ ForkMany
    \/ LoopTop
    \/ Step
    \/ TestFork
    \/ TestWait
    \/ TestKill
    \/ TestClassify
    \/ TestUnlink
    \/ Check
    \/ BogoInc
    \/ While
    \/ Err
    \/ Return

SpecLive ==
    /\ Init
    /\ [][NextDriver]_vars
    /\ WF_vars(DriverStep)
    /\ WF_vars(\E s \in Slots : KidRun(s))

----------------------------------------------------------------------------
(* The enumerator alone, from the moment it is forked, over deep trees *)

TreeDepths == {1, DepthLimit - 1, DepthLimit, MaxTreeDepth}

InitMany ==
    /\ InitCommon
    /\ pc = "loop_top"
    /\ pid_many = ManyPid
    /\ mpc = "m_call"
    /\ treeDepth \in TreeDepths

NextMany ==
    \/ ManyStep
    \/ Stop

SpecMany == InitMany /\ [][NextMany]_vars

----------------------------------------------------------------------------
(* Claims *)

InHarnessWithChild == pc \in {"t_wait", "t_kill"}
KidsAlive == {s \in Slots : KidRunning(kids[s])}
KidsPresent == {s \in Slots : kids[s].pc # "none"}

\* C1: once the Failure Counter is >= 5 the driver only finishes the return of
\* the test that raised it, takes the check that follows that test and shuts
\* down: no test child is forked any more, the bogo counter is not incremented.
C1_AbortAtThreshold ==
    [][failures >= FailureThreshold =>
          /\ pc' \in {"t_unlink", "check", "err", "deinit", "done"}
          /\ (pc = "check" => pc' \in {"check", "err"})
          /\ bogo' = bogo
          /\ KidsPresent' \subseteq KidsPresent]_vars

C1_Witness ==
    /\ pc = "done"
    /\ failures >= FailureThreshold
    /\ bogo = 0
    /\ pass = "iso"

\* C2 (as claimed): the harness adds one to the Failure Counter for every test
\* child it reaps that was killed by a signal or exited with a non-zero status.
C2_CrashCounted ==
    [][(/\ pc = "t_classify"
        /\ pc' = "t_unlink"
        /\ waitres = "ok"
        /\ (status = Signaled \/ (status.exited /\ status.code # EXIT_SUCCESS)))
          => failures' = failures + 1]_vars

C6_InterruptNotCounted ==
    [][/\ ((waitres = "eintr" \/ waitres' = "eintr") => failures' = failures)
       /\ (waitres = "eintr" => pc' \in {"t_kill", "t_unlink", "check"})
       /\ ((waitres = "eintr" /\ pc = "t_unlink" /\ pc' = "check")
              => (KidsPresent = {} /\ ~fileExists'))]_vars

C6_Witness ==
    /\ pc = "t_unlink"
    /\ waitres = "eintr"
    /\ KidsPresent = {}
    /\ fileExists

\* C7: when stress_landlock has returned, an enumerator that was forked has
\* been killed and reaped (one stress_kill_pid_wait on it), and when its fork
\* was given up no kill was issued at all.
C7_EnumeratorReaped ==
    pc = "done" =>
        IF pid_many = ForkFailed
           THEN mpc = "unforked" /\ killCalls = {}
           ELSE mpc = "reaped" /\ killCalls = {"many"}

C7_Witness ==
    /\ pc = "done"
    /\ pid_many = ManyPid
    /\ mpc = "reaped"
    /\ failures >= FailureThreshold

\* C8: no close is ever issued on a descriptor that is not open, the probe's
\* ruleset descriptor is open only until the probe closes it, the per-test
\* procedure returns with its ruleset and anchor descriptors closed, and every
\* descriptor the enumerator holds belongs to an invocation of
\* stress_landlock_many that has not returned yet (an anchor only to the
\* innermost one, between its open and its close), so none is open between
\* traversals.
C8_DescriptorsClosed ==
    /\ ~badClose
    /\ (pc # "sup_close" => dfds = {})
    /\ \A s \in Slots : kids[s].pc = "f_exit" => kids[s].fds = {}
    /\ \A fd \in mfds : fd.lvl \in 1..Len(mstack)
    /\ \A fd \in mfds : fd.kind = "anchor" =>
          (fd.lvl = Len(mstack) /\ mpc \in {"m_addrule", "m_close_anchor"})
    /\ (mpc \in {"unforked", "m_call", "m_while", "m_exit", "exited", "reaped"} => mfds = {})

C8_Witness ==
    /\ \E s \in Slots : /\ kids[s].pc = "f_exit"
                        /\ kids[s].calls = 1
                        /\ kids[s].dom = 0
                        /\ kids[s].fds = {}
    /\ mpc = "m_while"
    /\ mRuleFail
    /\ mfds = {}

ExpectedDirs == {d \in AllDirs : d <= DepthLimit}

C10_OnlyChildrenRestricted ==
    /\ drvDom = 0
    /\ mdom = 0
    /\ \A s \in Slots :
          /\ kids[s].calls <= 1
          /\ kids[s].dom <= kids[s].calls
          /\ (kids[s].pc = "f_create" => (kids[s].dom = 0 /\ ~kids[s].nnp))
          /\ (kids[s].dom > 0 => kids[s].nnp)

C10_Witness ==
    /\ pass = "iso"
    /\ drvDom = 0
    /\ mpc \notin {"unforked", "exited", "reaped"}
    /\ \E s \in Slots : /\ kids[s].dom = 1
                        /\ kids[s].calls = 1
                        /\ kids[s].mask = {FS_EXECUTE}

\* C11 (as claimed): a test child that called landlock_restrict_self has
\* attempted the three opens of the ephemeral file by the time it returns,
\* whether the restriction was accepted or rejected.
C11_OpensRegardless ==
    \A s \in Slots :
        (kids[s].pc = "f_exit" /\ kids[s].calls = 1) => kids[s].opens = 3

\* C11 (amended): the three opens are attempted only in a child whose
\* landlock_restrict_self succeeded: such a child has made all three once it
\* is past them, and a child whose restriction was rejected (or never
\* attempted) makes none of them.
C11_OpensOnlyWhenRestricted ==
    \A s \in Slots :
        /\ kids[s].opens \in {0, 3}
        /\ (kids[s].opens = 3 => kids[s].dom = 1)
        /\ (kids[s].dom = 0 => kids[s].opens = 0)
        /\ ((kids[s].dom = 1 /\ kids[s].pc # "f_opens") => kids[s].opens = 3)

C11_Witness ==
    \E s \in Slots : /\ kids[s].pc = "f_close_parent"
                     /\ kids[s].calls = 1
                     /\ kids[s].dom = 0
                     /\ kids[s].opens = 0
                     /\ kids[s].nnp

\* C12 (as claimed): when no test child is killed by a signal, every test
\* child exits with code 0 and the Failure Counter stays 0.
C12_NoFailureWithoutCrash ==
    /\ \A s \in Slots : kids[s].pc = "exited" => kids[s].st = Exited(EXIT_SUCCESS)
    /\ failures = 0

\* C13: a test child reaches landlock_restrict_self only with the ruleset
\* created, the anchor opened, the rule for exactly the mask under test
\* attached and no-new-privileges set, these steps having been taken in
\* that order; a child in which one of them failed never calls
\* landlock_restrict_self and returns unrestricted.
C13_RestrictAfterSetup ==
    \A s \in Slots :
        /\ (kids[s].pc = "f_anchor" => "ruleset" \in kids[s].fds)
        /\ (kids[s].pc \in {"f_addrule", "f_prctl", "f_restrict"}
               => {"ruleset", "anchor"} \subseteq kids[s].fds)
        /\ (kids[s].ruleAdded => kids[s].allowed = kids[s].mask)
        /\ (kids[s].nnp => kids[s].ruleAdded)
        /\ ((kids[s].pc = "f_restrict" \/ kids[s].calls > 0)
               => (kids[s].ruleAdded /\ kids[s].nnp))
        /\ (kids[s].dom > 0 => kids[s].calls = 1)
        /\ ((kids[s].pc = "f_exit" /\ ~(kids[s].ruleAdded /\ kids[s].nnp))
               => (kids[s].calls = 0 /\ kids[s].dom = 0))

C13_Witness ==
    \E s \in Slots : /\ kids[s].pc = "f_opens"
                     /\ kids[s].dom = 1
                     /\ kids[s].calls = 1
                     /\ kids[s].nnp
                     /\ kids[s].ruleAdded
                     /\ kids[s].mask = {FS_EXECUTE, FS_WRITE_FILE}
                     /\ kids[s].allowed = kids[s].mask

InTest == pc \in {"t_fork", "t_wait", "t_kill", "t_classify", "t_unlink", "check"}
AtomicEntries == {n \in 1..NFlags : Cardinality(landlock_access_flags[n]) = 1}

\* C14 (as claimed): every mask the isolated pass hands to the harness is a
\* single bit among positions 0-12, and the pass has thirteen tests.
C14_IsolatedSingleBit ==
    (InTest /\ pass = "iso") =>
        (/\ Cardinality(flag) = 1
         /\ flag \subseteq SHIM_LANDLOCK_ACCESS_ALL
         /\ i <= Cardinality(SHIM_LANDLOCK_ACCESS_ALL))

\* C14 (amended): the i-th test of the isolated pass runs with exactly the
\* i-th entry of the flag table, whatever the mask before it was.  The table
\* has fifteen entries: each of the thirteen atomic flags once, the
\* two-bit combination WRITE_FILE | READ_FILE (fourth entry) and the empty
\* mask 0 (last entry); so the pass dispatches fifteen tests, thirteen of
\* them with a single bit.
C14_IsolatedTableEntry ==
    /\ ((InTest /\ pass = "iso") =>
           (i \in 1..NFlags /\ flag = landlock_access_flags[i]))
    /\ NFlags = Cardinality(SHIM_LANDLOCK_ACCESS_ALL) + 2
    /\ Cardinality(AtomicEntries) = Cardinality(SHIM_LANDLOCK_ACCESS_ALL)
    /\ \A b \in SHIM_LANDLOCK_ACCESS_ALL :
          Cardinality({n \in AtomicEntries : landlock_access_flags[n] = {b}}) = 1
    /\ (1..NFlags) \ AtomicEntries = {4, NFlags}
    /\ landlock_access_flags[4] = {FS_WRITE_FILE, FS_READ_FILE}
    /\ landlock_access_flags[NFlags] = {}

C14_Witness ==
    /\ pc = "t_wait"
    /\ pass = "iso"
    /\ i = 4
    /\ flag = {FS_WRITE_FILE, FS_READ_FILE}
    /\ KidsPresent # {}

\* C15: the complement pass is one test per outer iteration: it is entered
\* with ctxt.flag still holding the last mask of the isolated pass, its test
\* runs with the 32-bit complement of that mask, which has bits outside the
\* thirteen defined positions and none above bit 31 (the child copies it
\* zero-extended into allowed_access), and the check after it leads to the
\* bogo-op increment or to the abort, never to another test.
C15_ComplementOnce ==
    [][/\ ((pc' = "step" /\ pass' = "comp") => flag' = landlock_access_flags[NFlags])
       /\ ((pc = "step" /\ pass = "comp" /\ pc' # pc) =>
              (/\ pass' = "comp"
               /\ flag' = Bits32 \ flag
               /\ flag' \ SHIM_LANDLOCK_ACCESS_ALL # {}))
       /\ ((InTest' /\ pass' = "comp") =>
              (/\ flag' = Bits32 \ landlock_access_flags[NFlags]
               /\ \A s \in Slots : kids'[s].pc \notin {"none", "exited", "signaled"} =>
                     (kids'[s].mask = flag' /\ kids'[s].allowed \subseteq Bits32)))
       /\ ((pc = "check" /\ pass = "comp" /\ pc' # pc) => pc' \in {"bogo", "err"})]_vars

C15_Witness ==
    /\ pc = "t_wait"
    /\ pass = "comp"
    /\ flag = Bits32
    /\ \E s \in Slots : /\ kids[s].pc = "f_addrule"
                        /\ kids[s].allowed = Bits32

\* the bitwise OR of the first k entries of the flag table
OrOfFirst(k) == UNION {landlock_access_flags[n] : n \in 1..k}

\* C16: in the cumulative pass the mask is empty when an outer iteration
\* starts, the k-th test runs with the OR of the first k table entries, no
\* step of the pass removes a bit from the mask, and the last test of the
\* pass runs with all thirteen atomic flags (0x1FFF, bits 0-12).
C16_CumulativeGrows ==
    [][/\ ((pc' = "step" /\ pass' = "cum" /\ i' = 1) => flag' = {})
       /\ ((pc = "step" /\ pass = "cum" /\ pc' # pc) =>
              (flag \subseteq flag' /\ flag' = flag \cup landlock_access_flags[i]))
       /\ ((InTest' /\ pass' = "cum") => flag' = OrOfFirst(i'))
       /\ ((InTest' /\ pass' = "cum" /\ i' = NFlags) =>
              (flag' = SHIM_LANDLOCK_ACCESS_ALL /\ flag' = 0..12))]_vars

C16_Witness ==
    /\ pc = "t_wait"
    /\ pass = "cum"
    /\ i = NFlags
    /\ bogo = 1
    /\ flag = SHIM_LANDLOCK_ACCESS_ALL
    /\ \E s \in Slots : kids[s].mask = SHIM_LANDLOCK_ACCESS_ALL

\* the directory entry the k-th invocation on the stack is processing
EntryOf(k) == DirEntries(mstack[k].dir)[mstack[k].i]

\* C17: an anchor is opened on an entry, or the entry is recursed into, only
\* when realpath resolved it to the very path that was joined; an entry that
\* does not resolve, or resolves elsewhere, is skipped.  So every invocation
\* on the stack was entered through a genuine directory entry of its caller
\* whose real path is its joined path, no directory is on the stack twice,
\* and the directories visited all lie in the tree below the root.
C17_OnlyCanonicalEntries ==
    /\ (mpc \in {"m_open", "m_addrule", "m_close_anchor", "m_dir"} => Top.rp = "same")
    /\ (mpc = "m_next" /\ Top.rp \in {"diff", "null"} => AnchorFd(Len(mstack)) \notin mfds)
    /\ \A k \in 2..Len(mstack) :
          /\ mstack[k - 1].rp = "same"
          /\ EntryOf(k - 1).d_type = DT_DIR
          /\ mstack[k].dir = EntryOf(k - 1).sub
    /\ \A j, k \in 1..Len(mstack) : j < k => mstack[j].dir # mstack[k].dir
    /\ visited \subseteq AllDirs

C17_Witness ==
    /\ mpc = "m_next"
    /\ Len(mstack) >= 2
    /\ Top.rp = "diff"
    /\ EntryOf(Len(mstack)).d_type = DT_LNK
    /\ mfds = {RulesetFd(k) : k \in 1..Len(mstack)}

\* C18 (as claimed): every listed entry that is a regular file or a symbolic
\* link, and whose real path could be resolved, gets an anchor opened on it
\* (and the anchor is closed again before the next entry is taken).
C18_AnchorsEveryFileAndLink ==
    [][/\ ((/\ mpc = "m_realpath"
            /\ mpc' # mpc
            /\ EntryOf(Len(mstack)).d_type \in {DT_REG, DT_LNK}
            /\ Top'.rp # "null") => mpc' = "m_open")
       /\ (mpc' = "m_next" => AnchorFd(Len(mstack')) \notin mfds')]_vars

\* C20 (as claimed): when an invocation of stress_landlock_many returns, every
\* block of the directory listing it obtained (each scandir entry and the
\* entry array) has been freed.
C20_ListingFreed ==
    [][(/\ mpc \in {"m_enter", "m_close_ruleset"}
        /\ Len(mstack') < Len(mstack)) => Top.alloc = 0]_vars

\* tests of the current outer iteration that are still to be dispatched
TestsLeft ==
    CASE pc \in {"sup_create", "sup_close", "start", "fork_many", "loop_top"} -> 2 * NFlags + 1
      [] pc = "step" /\ pass = "cum" -> 2 * NFlags + 2 - i
      [] pc = "step" /\ pass = "iso" -> NFlags + 2 - i
      [] pc = "step" /\ pass = "comp" -> 1
      [] InTest /\ pass = "cum" -> 2 * NFlags + 1 - i
      [] InTest /\ pass = "iso" -> NFlags + 1 - i
      [] OTHER -> 0

\* C19: once stress_continue() is false the driver starts no further outer
\* iteration: the tests still to be dispatched only decrease, each dispatch
\* taking one of them, and they are at most 31; under fair scheduling the
\* driver then reaches its return (or never started, the probe having
\* failed), and it also reaches its return once the Failure Counter is at
\* the threshold.
C19_StopsAndReturns ==
    /\ [][~StressContinue =>
             /\ TestsLeft <= 31
             /\ TestsLeft' <= TestsLeft
             /\ ((pc = "step" /\ pc' = "t_fork") => TestsLeft' = TestsLeft - 1)
             /\ (pc = "while" => pc' \in {"while", "err"})]_vars
    /\ (~StressContinue ~> pc \in {"done", "skipped"})
    /\ (failures >= FailureThreshold ~> pc = "done")
    /\ [](pc = "done" => (pid_many = ForkFailed \/ mpc = "reaped"))

C19_Witness ==
    /\ pc = "done"
    /\ ~keepRunning
    /\ bogo = 1
    /\ failures < FailureThreshold
    /\ mpc = "reaped"

====
